---- MODULE Spec2Model ----
(***************************************************************************)
(* A model of mcp_bash_server.py: the tool resolver find_tool_executable   *)
(* and the dispatcher call_tool with its six operations.                   *)
(*                                                                         *)
(* Text is a sequence of atoms (short strings); the atoms " ", "/", "."    *)
(* and ":" are the characters the code splits, replaces or joins on.  A    *)
(* path is a sequence of components, each a text; an absolute path starts  *)
(* with the component Root.  A request argument is a record [ty, v] with   *)
(* ty the JSON type of the value ("absent" when the key is absent) and v   *)
(* its text.                                                               *)
(***************************************************************************)
EXTENDS Integers, Sequences, FiniteSets, TLC

\* The most descendant processes one spawned shell starts.
MaxKids == 1

---------------------------------------------------------------------------
\* Text helpers: str.lower, str.split, str.replace, str.strip, str.join

LowerAtom(a) ==
    CASE a = "Securify" -> "securify"
      [] a = "Echidna"  -> "echidna"
      [] OTHER          -> a

Lower(s) == [i \in 1..Len(s) |-> LowerAtom(s[i])]

RECURSIVE SplitOn(_, _, _)
\* The pieces of s between occurrences of the atom sep, cur being the piece
\* under construction; empty pieces are dropped.
SplitOn(s, sep, cur) ==
    IF s = <<>> THEN (IF cur = <<>> THEN <<>> ELSE <<cur>>)
    ELSE IF Head(s) = sep
         THEN (IF cur = <<>> THEN <<>> ELSE <<cur>>) \o SplitOn(Tail(s), sep, <<>>)
         ELSE SplitOn(Tail(s), sep, Append(cur, Head(s)))

Split(s) == SplitOn(s, " ", <<>>)

Replace(s, old, new) == [i \in 1..Len(s) |-> IF s[i] = old THEN new ELSE s[i]]

RECURSIVE LStrip(_)
LStrip(s) == IF s # <<>> /\ Head(s) = " " THEN LStrip(Tail(s)) ELSE s

RECURSIVE RStrip(_)
RStrip(s) ==
    IF s # <<>> /\ s[Len(s)] = " " THEN RStrip(SubSeq(s, 1, Len(s) - 1)) ELSE s

Strip(s) == RStrip(LStrip(s))

RECURSIVE Join(_, _)
\* sep.join(parts)
Join(parts, sep) ==
    IF parts = <<>> THEN <<>>
    ELSE IF Len(parts) = 1 THEN parts[1]
    ELSE parts[1] \o <<sep>> \o Join(Tail(parts), sep)

Contains(s, a) == \E i \in 1..Len(s) : s[i] = a

---------------------------------------------------------------------------
\* pathlib.Path

Root == <<"/">>

\* Path(text): the components between "/" atoms; "." components are dropped
PathOf(s) ==
    LET comps == SplitOn(s, "/", <<>>)
        kept  == SelectSeq(comps, LAMBDA c : c # <<".">>)
    IN  IF s # <<>> /\ Head(s) = "/" THEN <<Root>> \o kept ELSE kept

IsAbsolute(p) == p # <<>> /\ p[1] = Root

\* p / text
PathJoin(p, s) == IF s # <<>> /\ Head(s) = "/" THEN PathOf(s) ELSE p \o PathOf(s)

\* str(p)
PathStr(p) ==
    IF p = <<>> THEN <<".">>
    ELSE IF IsAbsolute(p) THEN <<"/">> \o Join(Tail(p), "/")
    ELSE Join(p, "/")

Home == <<Root, <<"home">>, <<"u">>>>
Cwd  == <<Root, <<"srv">>>>

ExpandUser(p) == IF p # <<>> /\ p[1] = <<"~">> THEN Home \o Tail(p) ELSE p

Resolve(p) == IF IsAbsolute(p) THEN p ELSE Cwd \o p

IsPrefix(p, q) == Len(p) <= Len(q) /\ SubSeq(q, 1, Len(p)) = p

---------------------------------------------------------------------------
\* Module constants

TOOLS_DIR == PathJoin(Home, <<"tools">>)
WEB3SE_LAB_DIR == PathJoin(TOOLS_DIR, <<"web3se-lab">>)
Web3Scanner == PathJoin(WEB3SE_LAB_DIR, <<"web3-scanner">>)

\* The registry of find_tool_executable
tool_configs ==
    [ name \in { <<"slither">>, <<"mythril">>, <<"echidna">>, <<"securify2">>,
                 <<"securify">>, <<"medusa">>, <<"fuzz-utils">>, <<"solc-select">> } |->
      CASE name = <<"slither">> ->
             [ dir |-> PathJoin(TOOLS_DIR, <<"slither">>),
               command |-> <<"python3", " ", "slither", "/", "slither", ".", "py">>,
               description |-> "Slither static analyzer" ]
        [] name = <<"mythril">> ->
             [ dir |-> PathJoin(TOOLS_DIR, <<"mythril", "2", ".", "0">>),
               command |-> <<"python3", " ", "mythril", "/", "mythril">>,
               description |-> "Mythril security analyzer" ]
        [] name = <<"echidna">> ->
             [ dir |-> PathJoin(TOOLS_DIR, <<"echidna">>),
               command |-> <<"echidna-test">>,
               description |-> "Echidna fuzzing tool" ]
        [] name = <<"securify2">> ->
             [ dir |-> PathJoin(TOOLS_DIR, <<"securify2">>),
               command |-> <<"python3", " ", "-m", " ", "securify">>,
               description |-> "Securify2 static analyzer" ]
        [] name = <<"securify">> ->
             [ dir |-> PathJoin(TOOLS_DIR, <<"securify2">>),
               command |-> <<"python3", " ", "-m", " ", "securify">>,
               description |-> "Securify2 static analyzer" ]
        [] name = <<"medusa">> ->
             [ dir |-> PathJoin(TOOLS_DIR, <<"medusa">>),
               command |-> <<"python3", " ", "-m", " ", "medusa">>,
               description |-> "Medusa fuzzing tool" ]
        [] name = <<"fuzz-utils">> ->
             [ dir |-> PathJoin(TOOLS_DIR, <<"fuzz-utils">>),
               command |-> <<"python3", " ", "-m", " ", "fuzz_utils">>,
               description |-> "Fuzz utilities" ]
        [] OTHER ->
             [ dir |-> PathJoin(TOOLS_DIR, <<"solc-select">>),
               command |-> <<"solc-select">>,
               description |-> "Solidity compiler version selector" ] ]

---------------------------------------------------------------------------
\* The filesystem: the paths that exist, and those among them the process
\* may execute.  Paths outside FsUniverse do not exist, except the process's
\* working directory and home, which always do.

FsUniverse ==
    { PathJoin(TOOLS_DIR, <<"securify2">>),
      PathJoin(TOOLS_DIR, <<"securify2", "/", "securify">>),
      PathJoin(TOOLS_DIR, <<"securify2", "/", "-m">>),
      PathJoin(TOOLS_DIR, <<"echidna">>),
      PathJoin(TOOLS_DIR, <<"echidna", "/", "echidna">>),
      Web3Scanner,
      PathJoin(Home, <<"proj">>) }

Parent(p) == SubSeq(p, 1, Len(p) - 1)

\* A path of the universe exists only inside a directory that exists
Closed(files) == \A p \in files : Parent(p) \in FsUniverse => Parent(p) \in files

Exists(files, p) == p \in files \/ p = Cwd \/ p = Home

\* The paths of the universe that are directories when they exist
DirPaths ==
    { PathJoin(TOOLS_DIR, <<"securify2">>), PathJoin(TOOLS_DIR, <<"echidna">>),
      PathJoin(Home, <<"proj">>), Cwd, Home }

IsDir(files, p) == Exists(files, p) /\ p \in DirPaths

\* os.access(p, os.X_OK)
Access(execs, p) == p \in execs

\* The result of find_tool_executable is None (<<>>) or one dict (<<d>>)
None == <<>>
Some(d) == <<d>>

\* The candidate executables, in the order they are tried
possible_paths(tool_dir, tool_name, tool_name_lower) ==
    << PathJoin(tool_dir, tool_name),
       PathJoin(tool_dir, tool_name_lower),
       PathJoin(PathJoin(tool_dir, <<"bin">>), tool_name),
       PathJoin(PathJoin(tool_dir, <<"bin">>), tool_name_lower) >>

\* module_path.exists() or (module_path / "__init__.py").exists()
ModulePathExists(fs, module_path) ==
    \/ Exists(fs, module_path)
    \/ Exists(fs, PathJoin(module_path, <<"__init__", ".", "py">>))

\* The check made for the tools whose command contains "python3"
ModuleFound(fs, config) ==
    /\ Contains(config.command, "python3")
    /\ Tail(Split(config.command)) # <<>>
    /\ ModulePathExists(fs,
           PathJoin(config.dir, Replace(Tail(Split(config.command))[1], ".", "/")))

\* The dict returned for the registry's own command
ConfigCommand(config) ==
    [ command |-> config.command,
      cwd |-> PathStr(config.dir),
      description |-> config.description ]

\* The candidates that exist and may be executed
ExecutableAt(fs, xs, paths) ==
    { i \in 1..Len(paths) : Exists(fs, paths[i]) /\ Access(xs, paths[i]) }

\* Least for a loop that goes on after a match: the last match is kept
Least_LastMatch(indices) == CHOOSE i \in indices : \A j \in indices : i >= j

\* The first path of the loop that matches is the one returned
Least(indices) == CHOOSE i \in indices : \A j \in indices : i <= j

\* FindConfigured without the last return: no match, no result
FindConfigured_NoFallback(fs, xs, config, paths) ==
    IF ~Exists(fs, config.dir) THEN None
    ELSE IF ModuleFound(fs, config) THEN Some(ConfigCommand(config))
    ELSE IF ExecutableAt(fs, xs, paths) # {}
    THEN Some([ command |-> PathStr(paths[Least(ExecutableAt(fs, xs, paths))]),
                cwd |-> PathStr(config.dir),
                description |-> config.description ])
    ELSE None

\* find_tool_executable once the name is known to be a registry key
FindConfigured(fs, xs, config, paths) ==
    IF ~Exists(fs, config.dir) THEN None
    ELSE IF ModuleFound(fs, config) THEN Some(ConfigCommand(config))
    ELSE IF ExecutableAt(fs, xs, paths) # {}
    THEN Some([ command |-> PathStr(paths[Least(ExecutableAt(fs, xs, paths))]),
                cwd |-> PathStr(config.dir),
                description |-> config.description ])
    ELSE Some(ConfigCommand(config))

find_tool_executable(fs, xs, tool_name) ==
    IF Lower(tool_name) \notin DOMAIN tool_configs THEN None
    ELSE FindConfigured(fs, xs, tool_configs[Lower(tool_name)],
             possible_paths(tool_configs[Lower(tool_name)].dir, tool_name, Lower(tool_name)))

---------------------------------------------------------------------------
\* Request arguments

Absent == [ty |-> "absent", v |-> <<>>]
S(text) == [ty |-> "str", v |-> text]
I(text) == [ty |-> "int", v |-> text]
B(text) == [ty |-> "bool", v |-> text]

\* arguments.get(key, default)
Get(arguments, key, default) ==
    IF arguments[key].ty = "absent" THEN default ELSE arguments[key]

\* Python truthiness of an argument value
Truthy(x) ==
    CASE x.ty = "str"  -> x.v # <<>>
      [] x.ty = "int"  -> x.v # <<"0">>
      [] x.ty = "bool" -> x.v = <<"True">>
      [] OTHER         -> FALSE

\* The "required" lists of the input schemas
RequiredArguments(name) ==
    CASE name = "execute_command"      -> { "command" }
      [] name = "run_security_tool"    -> { "tool_name", "arguments" }
      [] name = "check_tool_available" -> { "tool_name" }
      [] name = "web3_scanner_scan"    -> { "repository_path" }
      [] OTHER                         -> {}

\* One labelled part of a report's text
Seg(label, val) == [label |-> label, val |-> val]

\* [TextContent(type="text", text=...)]
TextContent(kind, segs) == [kind |-> kind, text |-> segs]

\* An exception that leaves call_tool
Raised(exc) == [kind |-> "EXCEPTION", text |-> <<Seg("raised", <<exc>>)>>]

NoResult == [kind |-> "", text |-> <<>>]

Shows(report, label, val) ==
    \E i \in 1..Len(report.text) :
        report.text[i].label = label /\ report.text[i].val = val

HasLabel(report, label) ==
    \E i \in 1..Len(report.text) : report.text[i].label = label

---------------------------------------------------------------------------
\* The environment of spawned processes

IsSubstring(needle, hay) ==
    \E i \in 0..(Len(hay) - Len(needle)) :
        SubSeq(hay, i + 1, i + Len(needle)) = needle

\* The PATH values the server process may inherit: without the tools root,
\* and with the tools root already on it
UsrBin == <<"/", "usr", "/", "bin">>
BasePaths == { UsrBin, PathStr(TOOLS_DIR) \o <<":">> \o UsrBin }

\* DEFAULT_ENV as built at import from os.environ with PATH = base
DefaultEnvOf(base) ==
    [ PATH |-> PathStr(TOOLS_DIR) \o <<":">> \o PathStr(WEB3SE_LAB_DIR) \o <<":">> \o base,
      SMARTBERT_API |-> <<"http://localhost:9900">>,
      WEB3_SEKIT_API |-> <<"http://localhost:8081">> ]

\* The module-level mapping after a request has prepared its environment,
\* had the request put the tools root in front of PATH on the mapping itself
DefaultEnvAfterCopy_InPlace(default_env) ==
    [default_env EXCEPT !.PATH = PathStr(TOOLS_DIR) \o <<":">> \o @]

\* The module-level mapping after env = dict(DEFAULT_ENV) and the writes to
\* env: dict() makes a new mapping, which takes the writes
DefaultEnvAfterCopy(default_env) == default_env

\* env = dict(DEFAULT_ENV) with the tools root put in front of PATH if missing
PrepareEnv(default_env) ==
    LET tools_path == PathStr(TOOLS_DIR)
        current_path == default_env.PATH
    IN  IF ~IsSubstring(tools_path, current_path)
        THEN [default_env EXCEPT !.PATH = tools_path \o <<":">> \o current_path]
        ELSE default_env

\* The entries of a PATH value
PathEntries(path) == SplitOn(path, ":", <<>>)

Occurrences(entries, e) == Cardinality({ i \in 1..Len(entries) : entries[i] = e })

---------------------------------------------------------------------------
\* State

VARIABLES
    files,        \* the paths of FsUniverse that exist
    execs,        \* those of them the process may execute
    DEFAULT_ENV,  \* the module-level environment mapping
    pc,           \* where call_tool is: idle, suspended at an await, or done
    req,          \* the request being served: [name, arguments]
    proc,         \* the subprocess of the request being served
    result,       \* what call_tool returned
    io            \* what the request being served has done so far

vars == <<files, execs, DEFAULT_ENV, pc, req, proc, result, io>>

NoProc ==
    [ state |-> "none", killed |-> FALSE, status |-> 0, out |-> <<>>, err |-> <<>>,
      kids |-> 0, piped |-> FALSE, cmd |-> <<>>, cwd |-> <<>>, PATH |-> <<>> ]

\* asyncio.create_subprocess_shell(cmd, cwd=cwd, env=env): a running shell
Spawned(cmd, cwd, env, piped) ==
    [ NoProc EXCEPT !.state = "running", !.cmd = cmd, !.cwd = cwd,
                    !.PATH = env.PATH, !.piped = piped ]

\* What a request has done: spawned a process, probed the filesystem, made
\* an HTTP request (and what the two probes met), met a TimeoutError, found
\* the resolved tool's directory gone
NoIo ==
    [ spawned |-> FALSE, probed |-> FALSE, net |-> FALSE, timedOut |-> FALSE,
      smartbert |-> "", sekit |-> "", vanished |-> FALSE ]

NoReq == [name |-> "", arguments |-> [k \in {} |-> Absent]]

Init ==
    /\ files \in { f \in SUBSET FsUniverse : Closed(f) }
    /\ execs \in SUBSET (files \cap { PathJoin(TOOLS_DIR, <<"securify2", "/", "securify">>),
                                      PathJoin(TOOLS_DIR, <<"echidna", "/", "echidna">>) })
    /\ DEFAULT_ENV \in { DefaultEnvOf(base) : base \in BasePaths }
    /\ pc = "idle"
    /\ req = NoReq
    /\ proc = NoProc
    /\ result = NoResult
    /\ io = NoIo

---------------------------------------------------------------------------
\* Steps of call_tool

\* call_tool returns r
Finish(r, p, i) == pc' = "done" /\ result' = r /\ proc' = p /\ io' = i

\* call_tool suspends at an await
Suspend(at, p, i) == pc' = at /\ result' = NoResult /\ proc' = p /\ io' = i

\* bytes.decode("utf-8", errors="replace")
Decode(bytes) == [i \in 1..Len(bytes) |-> IF bytes[i] = "xFF" THEN "uFFFD" ELSE bytes[i]]

\* OutputSegs with the exit code taken to be 0 whenever output was read
OutputSegs_ZeroExit(p) ==
    <<Seg("Exit Code", <<"0">>)>>
    \o (IF Decode(p.out) # <<>> THEN <<Seg("STDOUT", Decode(p.out))>> ELSE <<>>)
    \o (IF Decode(p.err) # <<>> THEN <<Seg("STDERR", Decode(p.err))>> ELSE <<>>)

\* The "Exit Code" line and the STDOUT and STDERR sections of a report
OutputSegs(p) ==
    LET output == Decode(p.out)
        error_output == Decode(p.err)
    IN  <<Seg("Exit Code", <<ToString(p.status)>>)>>
        \o (IF output # <<>> THEN <<Seg("STDOUT", output)>> ELSE <<>>)
        \o (IF error_output # <<>> THEN <<Seg("STDERR", error_output)>> ELSE <<>>)

\* process.kill(): SIGKILL ends a running shell; a shell that has exited is
\* left as it is
Kill(p) ==
    IF p.state = "running"
    THEN [p EXCEPT !.state = "zombie", !.killed = TRUE, !.status = -9]
    ELSE p

\* process.communicate() is complete: the shell has been waited for and both
\* pipes are at end of file (no descendant holds them open)
CommunicateDone(p) == p.state = "reaped" /\ (p.piped => p.kids = 0)

\* ---- execute_command ----

ExecuteArguments ==
    [ command : { Absent, S(<<>>), S(<<"ls">>), I(<<"42">>) },
      working_directory : { Absent, S(<<"~", "/", "proj">>), I(<<"7">>) },
      timeout : { I(<<"5">>), S(<<"x">>) } ]

ExecuteFailed(arguments, exc) ==
    TextContent("exec_error",
        <<Seg("Error executing command", <<exc>>),
          Seg("Command", Get(arguments, "command", S(<<>>)).v)>>)

ExecuteTimeoutReport(arguments) ==
    TextContent("exec_timeout",
        <<Seg("Command timed out after", Get(arguments, "timeout", I(<<"300">>)).v),
          Seg("Command", Get(arguments, "command", S(<<>>)).v)>>)

ExecuteReport(arguments, p) ==
    TextContent("exec_result",
        <<Seg("Command", Get(arguments, "command", S(<<>>)).v),
          Seg("Working Directory", p.cwd)>> \o OutputSegs(p))

execute_command(arguments) ==
    LET command == Get(arguments, "command", S(<<>>))
        working_dir == Get(arguments, "working_directory", S(<<".">>))
        timeout == Get(arguments, "timeout", I(<<"300">>))
        work_dir == Resolve(ExpandUser(PathOf(working_dir.v)))
        env == PrepareEnv(DEFAULT_ENV)
        probed == [NoIo EXCEPT !.probed = TRUE]
        process == Spawned(command.v, PathStr(work_dir), env, TRUE)
    IN
    /\ pc = "idle"
    /\ req' = [name |-> "execute_command", arguments |-> arguments]
    /\ IF ~Truthy(command)
       THEN Finish(TextContent("no_command", <<>>), NoProc, NoIo)
       ELSE IF working_dir.ty # "str"
       THEN Finish(ExecuteFailed(arguments, "TypeError"), NoProc, NoIo)
       ELSE IF ~Exists(files, work_dir)
       THEN Finish(TextContent("wd_missing",
                       <<Seg("Working directory does not exist", PathStr(work_dir))>>),
                   NoProc, probed)
       ELSE IF command.ty # "str"
       THEN Finish(ExecuteFailed(arguments, "ValueError"), NoProc, probed)
       ELSE \E spawn_ok \in BOOLEAN :
              IF ~spawn_ok
              THEN Finish(ExecuteFailed(arguments, "OSError"), NoProc, probed)
              ELSE IF timeout.ty = "str"
              THEN Finish(ExecuteFailed(arguments, "TypeError"), process,
                          [probed EXCEPT !.spawned = TRUE])
              ELSE Suspend("communicate", process, [probed EXCEPT !.spawned = TRUE])
    /\ DEFAULT_ENV' = IF Truthy(command) /\ working_dir.ty = "str" /\ Exists(files, work_dir)
                      THEN DefaultEnvAfterCopy(DEFAULT_ENV)
                      ELSE DEFAULT_ENV
    /\ UNCHANGED <<files, execs>>

\* ---- run_security_tool ----

ToolArguments ==
    { a \in [ tool_name : { Absent, S(<<"Securify">>), S(<<"securify2">>),
                            S(<<"echidna">>), S(<<"nmap">>), I(<<"5">>) },
              arguments : { Absent, S(<<".", " ">>) },
              working_directory : { Absent, S(<<"~", "/", "proj">>) },
              timeout : { Absent, S(<<"x">>) } ] :
        a.arguments = Absent => a.working_directory = Absent }

ToolFailed(arguments, exc) ==
    TextContent("tool_error",
        <<Seg("Error running security tool", <<exc>>),
          Seg("Tool", Lower(Get(arguments, "tool_name", S(<<>>)).v)),
          Seg("Arguments", Get(arguments, "arguments", S(<<>>)).v)>>)

ToolTimeoutReport(arguments, p) ==
    TextContent("tool_timeout",
        <<Seg("Tool execution timed out after", Get(arguments, "timeout", I(<<"300">>)).v),
          Seg("Tool", Lower(Get(arguments, "tool_name", S(<<>>)).v)),
          Seg("Command", p.cmd)>>)

ToolReport(arguments, p) ==
    TextContent("tool_result",
        <<Seg("Security Tool Execution", Lower(Get(arguments, "tool_name", S(<<>>)).v)),
          Seg("Command", p.cmd),
          Seg("Working Directory", p.cwd)>> \o OutputSegs(p))

\* The resolution run_security_tool makes: the name, then the alias's
\* canonical name
ResolveTool(fs, xs, tool_name) ==
    IF find_tool_executable(fs, xs, tool_name) = None /\ tool_name = <<"securify">>
    THEN find_tool_executable(fs, xs, <<"securify2">>)
    ELSE find_tool_executable(fs, xs, tool_name)

\* ExecCwd giving the caller's working directory the preference
ExecCwd_CallerFirst(fs, tool_cwd, work_dir) ==
    IF Exists(fs, work_dir) THEN PathStr(work_dir) ELSE PathStr(tool_cwd)

\* Use tool's directory or specified working directory
ExecCwd(fs, tool_cwd, work_dir) ==
    IF Exists(fs, tool_cwd) THEN PathStr(tool_cwd) ELSE PathStr(work_dir)

\* The filesystems tool_cwd.exists() may meet after the resolver met fs:
\* the same, or one whose tool directory another process has removed
ExecutionFs(fs, tool_info) ==
    IF tool_info = None
    THEN {fs}
    ELSE {fs, { p \in fs : ~IsPrefix(PathOf(tool_info[1].cwd), p) }}

\* The subprocess and the wait for it
RunToolIn(fs, arguments, full_command, exec_cwd, timeout, probed) ==
    IF ~Exists(fs, PathOf(exec_cwd))
    THEN Finish(ToolFailed(arguments, "FileNotFoundError"), NoProc, probed)
    ELSE \E spawn_ok \in BOOLEAN :
           IF ~spawn_ok
           THEN Finish(ToolFailed(arguments, "OSError"), NoProc, probed)
           ELSE IF timeout.ty = "str"
           THEN Finish(ToolFailed(arguments, "TypeError"),
                       Spawned(full_command, exec_cwd, PrepareEnv(DEFAULT_ENV), TRUE),
                       [probed EXCEPT !.spawned = TRUE])
           ELSE Suspend("communicate",
                        Spawned(full_command, exec_cwd, PrepareEnv(DEFAULT_ENV), TRUE),
                        [probed EXCEPT !.spawned = TRUE])

\* The body of the operation from the lookup of the tool on
RunResolved(fs, arguments, tool_name, tool_info, tool_args, working_dir) ==
    IF tool_info = None
    THEN Finish(TextContent("tool_not_found", <<Seg("Tool", tool_name)>>), NoProc,
                [NoIo EXCEPT !.probed = tool_name \in DOMAIN tool_configs])
    ELSE IF working_dir.ty # "str"
    THEN Finish(ToolFailed(arguments, "TypeError"), NoProc, [NoIo EXCEPT !.probed = TRUE])
    ELSE RunToolIn(fs, arguments,
                   Strip(tool_info[1].command \o <<" ">> \o tool_args.v),
                   ExecCwd(fs, Resolve(ExpandUser(PathOf(tool_info[1].cwd))),
                           Resolve(ExpandUser(PathOf(working_dir.v)))),
                   Get(arguments, "timeout", I(<<"300">>)),
                   [NoIo EXCEPT !.probed = TRUE, !.vanished = fs # files])

\* The same with the filesystem that the second look at the tool's directory
\* meets, and with the environment that is prepared once the working
\* directory has been resolved
RunLookedUp(arguments, tool_name, tool_info, working_dir) ==
    \E fs \in ExecutionFs(files, tool_info) :
        /\ RunResolved(fs, arguments, tool_name, tool_info,
                       Get(arguments, "arguments", S(<<>>)), working_dir)
        /\ files' = fs
        /\ execs' = execs \cap fs
        /\ DEFAULT_ENV' = IF tool_info # None /\ working_dir.ty = "str"
                          THEN DefaultEnvAfterCopy(DEFAULT_ENV)
                          ELSE DEFAULT_ENV

run_security_tool(arguments) ==
    /\ pc = "idle"
    /\ req' = [name |-> "run_security_tool", arguments |-> arguments]
    /\ IF Get(arguments, "tool_name", S(<<>>)).ty # "str"
       THEN /\ Finish(Raised("AttributeError"), NoProc, NoIo)
            /\ UNCHANGED <<files, execs, DEFAULT_ENV>>
       ELSE IF Lower(Get(arguments, "tool_name", S(<<>>)).v) = <<>>
       THEN /\ Finish(TextContent("no_tool_name", <<>>), NoProc, NoIo)
            /\ UNCHANGED <<files, execs, DEFAULT_ENV>>
       ELSE RunLookedUp(arguments,
                        Lower(Get(arguments, "tool_name", S(<<>>)).v),
                        ResolveTool(files, execs, Lower(Get(arguments, "tool_name", S(<<>>)).v)),
                        Get(arguments, "working_directory", S(<<".">>)))

\* ---- check_tool_available ----

CheckArguments ==
    [ tool_name : { Absent, S(<<"Securify">>), S(<<"securify2">>), S(<<"Echidna">>),
                    S(<<"nmap">>), I(<<"5">>) } ]

\* What subprocess.run(["which", tool_name], timeout=5) can do
WhichOutcomes == { "found", "not_found", "TimeoutExpired", "OSError" }

\* The directory heuristics that follow a failed resolution
FoundInTools(fs, xs, tool_name) ==
    LET tool_dirs ==
            << PathJoin(TOOLS_DIR, tool_name),
               PathJoin(PathJoin(TOOLS_DIR, tool_name), tool_name),
               PathJoin(PathJoin(TOOLS_DIR, tool_name \o <<"2", ".", "0">>), tool_name),
               PathJoin(WEB3SE_LAB_DIR, tool_name) >>
        possible(d) == << PathJoin(d, tool_name),
                          PathJoin(PathJoin(d, <<"bin">>), tool_name) >>
    IN  { <<i, j>> \in (1..4) \X (1..2) :
            /\ IsDir(fs, tool_dirs[i])
            /\ Exists(fs, possible(tool_dirs[i])[j])
            /\ Access(xs, possible(tool_dirs[i])[j]) }

\* The branch taken when which does not find the tool
CheckInTools(tool_name, tool_info, all) ==
    IF tool_info # None
    THEN Finish(TextContent("tool_found",
                    <<Seg("Tool", tool_name),
                      Seg("Command", tool_info[1].command),
                      Seg("Directory", tool_info[1].cwd)>>),
                NoProc, all)
    ELSE IF FoundInTools(files, execs, tool_name) # {}
    THEN Finish(TextContent("tool_in_tools", <<Seg("Tool", tool_name)>>), NoProc, all)
    ELSE Finish(TextContent("tool_unavailable", <<Seg("Tool", tool_name)>>), NoProc, all)

CheckWhich(tool_name, which, ran) ==
    CASE which = "OSError" ->
           Finish(TextContent("check_error", <<Seg("Error checking tool", <<which>>)>>),
                  NoProc, NoIo)
      [] which = "TimeoutExpired" ->
           Finish(TextContent("check_error", <<Seg("Error checking tool", <<which>>)>>),
                  NoProc, ran)
      [] which = "found" ->
           Finish(TextContent("tool_on_path", <<Seg("Tool", tool_name)>>), NoProc, ran)
      [] OTHER ->
           CheckInTools(tool_name, find_tool_executable(files, execs, tool_name),
                        [ran EXCEPT !.probed = TRUE])

check_tool_available(arguments) ==
    /\ pc = "idle"
    /\ req' = [name |-> "check_tool_available", arguments |-> arguments]
    /\ IF ~Truthy(Get(arguments, "tool_name", S(<<>>)))
       THEN Finish(TextContent("no_tool_name", <<>>), NoProc, NoIo)
       ELSE IF Get(arguments, "tool_name", S(<<>>)).ty # "str"
       THEN Finish(TextContent("check_error", <<Seg("Error checking tool", <<"TypeError">>)>>),
                   NoProc, NoIo)
       ELSE \E which \in WhichOutcomes :
              CheckWhich(Get(arguments, "tool_name", S(<<>>)).v, which,
                         [NoIo EXCEPT !.spawned = TRUE])
    /\ UNCHANGED <<files, execs, DEFAULT_ENV>>

\* ---- web3_scanner_scan ----

ScanArguments ==
    [ repository_path : { Absent, S(<<".", "/", "c">>), I(<<"9">>) },
      with_intent : { Absent, B(<<"False">>) },
      with_embed : { Absent },
      output_file : { Absent, S(<<"o", ".", "json">>) } ]

ScanFailed(arguments, exc) ==
    TextContent("scan_error",
        <<Seg("Error running web3-scanner", <<exc>>),
          Seg("Repository", Get(arguments, "repository_path", S(<<>>)).v)>>)

ScanTimeoutReport(p) ==
    TextContent("scan_timeout", <<Seg("Scan timed out after", <<"10 minutes">>),
                                  Seg("Command", p.cmd)>>)

ScanReport(arguments, p, saved) ==
    LET output_file == Get(arguments, "output_file", S(<<>>))
    IN  TextContent("scan_result",
            <<Seg("Repository", Get(arguments, "repository_path", S(<<>>)).v)>>
            \o OutputSegs(p)
            \o (IF Truthy(output_file) /\ saved
                THEN <<Seg("Results saved to", output_file.v)>> ELSE <<>>))

web3_scanner_scan(arguments) ==
    LET repo_path == Get(arguments, "repository_path", S(<<>>))
        with_intent == Get(arguments, "with_intent", B(<<"True">>))
        with_embed == Get(arguments, "with_embed", B(<<"True">>))
        output_file == Get(arguments, "output_file", S(<<>>))
        probed == [NoIo EXCEPT !.probed = TRUE]
        cmd_parts ==
            <<PathStr(Web3Scanner), <<"scan">>, repo_path.v>>
            \o (IF Truthy(with_intent) THEN << <<"--intent">> >> ELSE <<>>)
            \o (IF Truthy(with_embed) THEN << <<"--embed">> >> ELSE <<>>)
            \o (IF Truthy(output_file) THEN << <<"--output">>, output_file.v >> ELSE <<>>)
        command == Join(cmd_parts, " ")
        process == Spawned(command, PathStr(WEB3SE_LAB_DIR), DEFAULT_ENV, TRUE)
    IN
    /\ pc = "idle"
    /\ req' = [name |-> "web3_scanner_scan", arguments |-> arguments]
    /\ IF ~Truthy(repo_path)
       THEN Finish(TextContent("no_repo", <<>>), NoProc, NoIo)
       ELSE IF ~Exists(files, Web3Scanner)
       THEN Finish(TextContent("scanner_missing",
                       <<Seg("web3-scanner not found at", PathStr(Web3Scanner))>>),
                   NoProc, probed)
       ELSE IF repo_path.ty # "str" \/ (Truthy(output_file) /\ output_file.ty # "str")
       THEN Finish(ScanFailed(arguments, "TypeError"), NoProc, probed)
       ELSE \E spawn_ok \in BOOLEAN :
              IF ~spawn_ok
              THEN Finish(ScanFailed(arguments, "OSError"), NoProc, probed)
              ELSE Suspend("communicate", process, [probed EXCEPT !.spawned = TRUE])
    /\ UNCHANGED <<files, execs, DEFAULT_ENV>>

\* ---- check_web3se_status ----

\* What urlopen and the reading of the response can do
SmartBertOutcomes == { "json_dict", "json_other", "not_json", "URLError", "timeout" }
SekitOutcomes == { "ok", "URLError", "timeout" }

\* StatusReport with the first probe's JSON parsing outside its try block:
\* a body that is not JSON ends the whole check
StatusReport_ParseEscapes(default_env, fs, smartbert, sekit) ==
    IF smartbert = "not_json"
    THEN TextContent("status_error",
             <<Seg("Error checking web3se-lab status", <<smartbert>>)>>)
    ELSE TextContent("status",
             <<Seg("SmartBERT API",
                   (IF smartbert \in { "json_dict", "json_other" }
                    THEN <<"Running at">> ELSE <<"Not running at">>)
                   \o default_env.SMARTBERT_API),
               Seg("web3-sekit API",
                   (IF sekit = "ok" THEN <<"Running at">> ELSE <<"Not running at">>)
                   \o default_env.WEB3_SEKIT_API),
               Seg("web3-scanner CLI",
                   (IF Exists(fs, Web3Scanner)
                    THEN <<"Available at">> ELSE <<"Not found at">>)
                   \o PathStr(Web3Scanner))>>)

StatusReport(default_env, fs, smartbert, sekit) ==
    LET smartbert_url == default_env.SMARTBERT_API
        web3sekit_url == default_env.WEB3_SEKIT_API
        first ==
            IF smartbert \in { "json_dict", "json_other" }
            THEN <<Seg("SmartBERT API", <<"Running at">> \o smartbert_url)>>
                 \o (IF smartbert = "json_dict" THEN <<Seg("Model", <<"model">>)>> ELSE <<>>)
            ELSE <<Seg("SmartBERT API", <<"Not running at">> \o smartbert_url),
                   Seg("Error", <<smartbert>>)>>
        second ==
            IF sekit = "ok"
            THEN <<Seg("web3-sekit API", <<"Running at">> \o web3sekit_url)>>
            ELSE <<Seg("web3-sekit API", <<"Not running at">> \o web3sekit_url)>>
        third ==
            IF Exists(fs, Web3Scanner)
            THEN <<Seg("web3-scanner CLI", <<"Available at">> \o PathStr(Web3Scanner))>>
            ELSE <<Seg("web3-scanner CLI", <<"Not found at">> \o PathStr(Web3Scanner))>>
    IN  TextContent("status", first \o second \o third)

check_web3se_status ==
    /\ pc = "idle"
    /\ req' = [name |-> "check_web3se_status", arguments |-> [k \in {} |-> Absent]]
    /\ \E smartbert \in SmartBertOutcomes, sekit \in SekitOutcomes :
         Finish(StatusReport(DEFAULT_ENV, files, smartbert, sekit), NoProc,
                [NoIo EXCEPT !.net = TRUE, !.probed = TRUE,
                             !.smartbert = smartbert, !.sekit = sekit])
    /\ UNCHANGED <<files, execs, DEFAULT_ENV>>

\* ---- start_web3se_services ----

StartArguments == [ background : { Absent, B(<<"True">>), B(<<"False">>) } ]

LauncherCommand ==
    <<"cd", " ">> \o PathStr(WEB3SE_LAB_DIR) \o <<" ", "&&", " ", "nohup", " ">>
    \o PathStr(Web3Scanner) \o <<" ", "start", " ", ">", " ">>
    \o <<"/", "dev", "/", "null">> \o <<" ", "2>&1", " ", "&">>

start_web3se_services(arguments) ==
    LET background == Get(arguments, "background", B(<<"False">>))
        probed == [NoIo EXCEPT !.probed = TRUE]
        process == Spawned(LauncherCommand, PathStr(Cwd), DEFAULT_ENV, FALSE)
    IN
    /\ pc = "idle"
    /\ req' = [name |-> "start_web3se_services", arguments |-> arguments]
    /\ IF ~Exists(files, Web3Scanner)
       THEN Finish(TextContent("scanner_missing",
                       <<Seg("web3-scanner not found at", PathStr(Web3Scanner))>>),
                   NoProc, probed)
       ELSE IF ~Truthy(background)
       THEN Finish(TextContent("start_instructions",
                       <<Seg("cd", PathStr(WEB3SE_LAB_DIR))>>), NoProc, probed)
       ELSE \E spawn_ok \in BOOLEAN :
              IF ~spawn_ok
              THEN Finish(TextContent("start_error",
                              <<Seg("Error starting services", <<"OSError">>)>>),
                          NoProc, probed)
              ELSE Suspend("launcher_wait", process, [probed EXCEPT !.spawned = TRUE])
    /\ UNCHANGED <<files, execs, DEFAULT_ENV>>

\* LauncherWaited without the wait: the sleep starts while the launcher
\* shell may still run
LauncherWaited_NoWait ==
    /\ pc = "launcher_wait"
    /\ pc' = "sleep"
    /\ UNCHANGED <<files, execs, DEFAULT_ENV, req, proc, result, io>>

\* await process.wait() returns: the launcher shell has been waited for
LauncherWaited ==
    /\ pc = "launcher_wait"
    /\ proc.state = "reaped"
    /\ pc' = "sleep"
    /\ UNCHANGED <<files, execs, DEFAULT_ENV, req, proc, result, io>>

\* await asyncio.sleep(5) returns; the status check runs and its result is
\* returned
SleepReturns ==
    /\ pc = "sleep"
    /\ \E smartbert \in SmartBertOutcomes, sekit \in SekitOutcomes :
         Finish(StatusReport(DEFAULT_ENV, files, smartbert, sekit), proc,
                [io EXCEPT !.net = TRUE, !.smartbert = smartbert, !.sekit = sekit])
    /\ UNCHANGED <<files, execs, DEFAULT_ENV, req>>

\* ---- any other operation name ----

unknown_tool ==
    /\ pc = "idle"
    /\ req' = [name |-> "bogus", arguments |-> [k \in {} |-> Absent]]
    /\ Finish(TextContent("unknown_tool", <<Seg("Unknown tool", <<"bogus">>)>>), NoProc, NoIo)
    /\ UNCHANGED <<files, execs, DEFAULT_ENV>>

---------------------------------------------------------------------------
\* The awaits of the three operations that run a command under wait_for

TimeoutReport(r, p) ==
    CASE r.name = "execute_command"   -> ExecuteTimeoutReport(r.arguments)
      [] r.name = "run_security_tool" -> ToolTimeoutReport(r.arguments, p)
      [] OTHER                        -> ScanTimeoutReport(p)

NormalReport(r, p, saved) ==
    CASE r.name = "execute_command"   -> ExecuteReport(r.arguments, p)
      [] r.name = "run_security_tool" -> ToolReport(r.arguments, p)
      [] OTHER                        -> ScanReport(r.arguments, p, saved)

\* wait_for(process.communicate(), timeout) returns stdout and stderr
CommunicateReturns ==
    /\ pc = "communicate"
    /\ CommunicateDone(proc)
    /\ \E saved \in (IF req.name = "web3_scanner_scan" THEN BOOLEAN ELSE {FALSE}) :
         Finish(NormalReport(req, proc, saved), proc, io)
    /\ UNCHANGED <<files, execs, DEFAULT_ENV, req>>

\* wait_for raises TimeoutError: process.kill(), then await process.wait()
WaitForTimeout ==
    /\ pc = "communicate"
    /\ ~CommunicateDone(proc)
    /\ Suspend("kill_wait", Kill(proc), [io EXCEPT !.timedOut = TRUE])
    /\ UNCHANGED <<files, execs, DEFAULT_ENV, req>>

\* await process.wait() returns in the TimeoutError handler
KillWaited ==
    /\ pc = "kill_wait"
    /\ proc.state = "reaped"
    /\ Finish(TimeoutReport(req, proc), proc, io)
    /\ UNCHANGED <<files, execs, DEFAULT_ENV, req>>

---------------------------------------------------------------------------
\* The operating system, while call_tool is suspended

ExitStatuses == { 0, 7 }
\* What the shell may have written to its two pipes
ShellOutputs ==
    { [out |-> <<>>, err |-> <<>>],
      [out |-> <<"h", "xFF">>, err |-> <<>>],
      [out |-> <<>>, err |-> <<"e">>] }

Suspended == pc \in { "communicate", "kill_wait", "launcher_wait", "sleep" }

\* The shell starts a process of its own, which inherits the shell's pipes
ShellFork ==
    /\ Suspended
    /\ proc.state = "running"
    /\ proc.kids < MaxKids
    /\ proc' = [proc EXCEPT !.kids = @ + 1]
    /\ UNCHANGED <<files, execs, DEFAULT_ENV, pc, req, result, io>>

\* The shell exits by itself, having written its output, and the event
\* loop's child watcher waits for it
ShellExit ==
    /\ Suspended
    /\ proc.state = "running"
    /\ \E status \in ExitStatuses,
          w \in (IF proc.piped THEN ShellOutputs ELSE { [out |-> <<>>, err |-> <<>>] }) :
         proc' = [proc EXCEPT !.state = "reaped", !.status = status,
                              !.out = w.out, !.err = w.err]
    /\ UNCHANGED <<files, execs, DEFAULT_ENV, pc, req, result, io>>

\* The event loop's child watcher waits for the shell that was killed
ChildReaped ==
    /\ Suspended
    /\ proc.state = "zombie"
    /\ proc' = [proc EXCEPT !.state = "reaped"]
    /\ UNCHANGED <<files, execs, DEFAULT_ENV, pc, req, result, io>>

\* A process the shell started exits
KidExit ==
    /\ Suspended
    /\ proc.kids > 0
    /\ proc' = [proc EXCEPT !.kids = @ - 1]
    /\ UNCHANGED <<files, execs, DEFAULT_ENV, pc, req, result, io>>

\* Between requests, a path is created or a path and all below it removed
FsChange ==
    /\ pc = "idle"
    /\ \E p \in FsUniverse :
         IF p \in files
         THEN /\ files' = { q \in files : ~IsPrefix(p, q) }
              /\ execs' = { q \in execs : ~IsPrefix(p, q) }
         ELSE /\ Closed(files \cup {p})
              /\ files' = files \cup {p}
              /\ execs' \in { execs, execs \cup ({p} \ DirPaths) }
    /\ UNCHANGED <<DEFAULT_ENV, pc, req, proc, result, io>>

\* The transport takes the result; the server is ready for the next request
Respond ==
    /\ pc = "done"
    /\ pc' = "idle"
    /\ req' = NoReq
    /\ proc' = NoProc
    /\ result' = NoResult
    /\ io' = NoIo
    /\ UNCHANGED <<files, execs, DEFAULT_ENV>>

Next ==
    \/ \E a \in ExecuteArguments : execute_command(a)
    \/ \E a \in ToolArguments : run_security_tool(a)
    \/ \E a \in CheckArguments : check_tool_available(a)
    \/ \E a \in ScanArguments : web3_scanner_scan(a)
    \/ \E a \in StartArguments : start_web3se_services(a)
    \/ check_web3se_status
    \/ unknown_tool
    \/ LauncherWaited
    \/ SleepReturns
    \/ CommunicateReturns
    \/ WaitForTimeout
    \/ KillWaited
    \/ ShellFork
    \/ ShellExit
    \/ ChildReaped
    \/ KidExit
    \/ FsChange
    \/ Respond

Spec == Init /\ [][Next]_vars

---------------------------------------------------------------------------
\* The resolver alone, over installations with every candidate executable

\* Two installations: one whose command is a program, one whose command is
\* a python3 -m launch, each with candidates in the directory and in bin
ResolverUniverse ==
    { PathJoin(TOOLS_DIR, <<"echidna">>),
      PathJoin(TOOLS_DIR, <<"echidna", "/", "Echidna">>),
      PathJoin(TOOLS_DIR, <<"echidna", "/", "echidna">>),
      PathJoin(TOOLS_DIR, <<"echidna", "/", "bin", "/", "Echidna">>),
      PathJoin(TOOLS_DIR, <<"echidna", "/", "bin", "/", "echidna">>),
      PathJoin(TOOLS_DIR, <<"securify2">>),
      PathJoin(TOOLS_DIR, <<"securify2", "/", "-m">>),
      PathJoin(TOOLS_DIR, <<"securify2", "/", "securify">>),
      PathJoin(TOOLS_DIR, <<"securify2", "/", "bin", "/", "securify">>) }

ResolverDirs ==
    { PathJoin(TOOLS_DIR, <<"echidna">>), PathJoin(TOOLS_DIR, <<"securify2">>) }

\* The names the resolver is called with
ResolverInputs ==
    { <<"Echidna">>, <<"echidna">>, <<"Securify">>, <<"securify">>, <<"securify2">>,
      <<"solc-select">>, <<"nmap">> }

InitResolver ==
    /\ files \in { f \in SUBSET ResolverUniverse :
                     \A p \in f : \A d \in ResolverDirs : IsPrefix(d, p) => d \in f }
    /\ execs \in SUBSET (files \ (ResolverDirs
                                     \cup { PathJoin(TOOLS_DIR, <<"securify2", "/", "-m">>) }))
    /\ DEFAULT_ENV = DefaultEnvOf(UsrBin)
    /\ pc = "idle"
    /\ req = NoReq
    /\ proc = NoProc
    /\ result = NoResult
    /\ io = NoIo

\* find_tool_executable(tool_name) is called and returns
FindToolExecutableCall(tool_name) ==
    /\ pc = "idle"
    /\ req' = [name |-> "find_tool_executable", arguments |-> [tool_name |-> S(tool_name)]]
    /\ Finish([kind |-> "find_tool_executable",
               text |-> find_tool_executable(files, execs, tool_name)],
              NoProc, [NoIo EXCEPT !.probed = Lower(tool_name) \in DOMAIN tool_configs])
    /\ UNCHANGED <<files, execs, DEFAULT_ENV>>

NextResolver ==
    \/ \E tool_name \in ResolverInputs : FindToolExecutableCall(tool_name)
    \/ Respond

SpecResolver == InitResolver /\ [][NextResolver]_vars

---------------------------------------------------------------------------
\* Properties

Returned == pc = "done"

Argument(key) == req.arguments[key]

TimeoutKinds == { "exec_timeout", "tool_timeout", "scan_timeout" }

\* C1: when wait_for times out, the operation returns only after the
\* spawned shell is dead and waited for, the report is a timeout report
\* without STDOUT or STDERR, and no process the command started still runs.
C1_TimeoutLeavesNoProcess ==
    (Returned /\ io.timedOut) =>
        /\ proc.state = "reaped"
        /\ result.kind \in TimeoutKinds
        /\ ~HasLabel(result, "STDOUT")
        /\ ~HasLabel(result, "STDERR")
        /\ proc.kids = 0

\* C2: whatever the operation name and the arguments, call_tool returns a
\* text result: no exception leaves it.
C2_NoExceptionEscapes == Returned => result.kind # "EXCEPTION"

\* The tool names the resolver is asked about
ResolverNames ==
    { <<"Securify">>, <<"securify">>, <<"securify2">>, <<"echidna">>, <<"Echidna">>,
      <<"slither">>, <<"solc-select">>, <<"nmap">>, <<>> }

InstallDirExists(tool_name) ==
    /\ Lower(tool_name) \in DOMAIN tool_configs
    /\ Exists(files, tool_configs[Lower(tool_name)].dir)

NoProbeMatches(tool_name) ==
    /\ ~ModuleFound(files, tool_configs[Lower(tool_name)])
    /\ ExecutableAt(files, execs,
           possible_paths(tool_configs[Lower(tool_name)].dir, tool_name,
                          Lower(tool_name))) = {}

\* C3: find_tool_executable returns None exactly when the lowercased name is
\* no registry key or its installation directory does not exist; otherwise
\* it returns an invocation whose cwd is the installation directory, and the
\* registry's own command when no probe matches.  run_security_tool reports
\* "not found" only for such a name, and spawns only for a name whose
\* directory exists (or existed when the name was resolved).  (The resolver reads the filesystem
\* alone, and every filesystem state occurs between requests.)
C3_NotFoundIffNoInstallDir ==
    /\ pc = "idle" => \A n \in ResolverNames :
         /\ (find_tool_executable(files, execs, n) = None) <=> ~InstallDirExists(n)
         /\ InstallDirExists(n) =>
               find_tool_executable(files, execs, n)[1].cwd
                   = PathStr(tool_configs[Lower(n)].dir)
         /\ (InstallDirExists(n) /\ NoProbeMatches(n)) =>
               find_tool_executable(files, execs, n)[1].command
                   = tool_configs[Lower(n)].command
    /\ (Returned /\ req.name = "run_security_tool" /\ result.kind = "tool_not_found") =>
         ~InstallDirExists(Argument("tool_name").v)
    /\ (Returned /\ req.name = "run_security_tool" /\ io.spawned /\ ~io.vanished) =>
         InstallDirExists(Argument("tool_name").v)

\* run_security_tool has run echidna by the registry's command, no executable
\* candidate being present
C3_Witness ==
    /\ Returned
    /\ req.name = "run_security_tool"
    /\ Argument("tool_name") = S(<<"echidna">>)
    /\ PathJoin(TOOLS_DIR, <<"echidna", "/", "echidna">>) \notin files
    /\ result.kind = "tool_result"
    /\ proc.cmd = <<"echidna-test", " ", ".">>
    /\ proc.cwd = PathStr(PathJoin(TOOLS_DIR, <<"echidna">>))

\* C4: the alias "securify" and the canonical "securify2" resolve alike: both
\* to None, or to the same command and cwd.
C4_AliasResolvesAlike ==
    find_tool_executable(files, execs, <<"securify">>)
        = find_tool_executable(files, execs, <<"securify2">>)

\* C5: the PATH given to a spawned process holds the tools root at most once.
C5_ToolsRootOnceOnPath ==
    proc.state # "none" =>
        Occurrences(PathEntries(proc.PATH), PathStr(TOOLS_DIR)) <= 1

\* The required arguments the request lacks
MissingRequired == { k \in RequiredArguments(req.name) : Argument(k) = Absent }

InputMissingKinds == { "no_command", "no_tool_name", "no_repo" }

\* C6: a request that lacks a required argument gets a text error, and no
\* process is spawned, no path probed and no HTTP request made for it.
C6_MissingRequiredNoIo ==
    (Returned /\ MissingRequired # {}) =>
        /\ result.kind \in InputMissingKinds
        /\ ~io.spawned /\ ~io.probed /\ ~io.net

\* The request names a command or tool that can be run, and a working
\* directory that does not exist
RunnableInMissingDir ==
    /\ req.name \in { "execute_command", "run_security_tool" }
    /\ \A k \in RequiredArguments(req.name) :
          Argument(k).ty = "str" /\ Argument(k).v # <<>>
    /\ req.name = "run_security_tool" =>
          ResolveTool(files, execs, Lower(Argument("tool_name").v)) # None
    /\ Argument("working_directory").ty = "str"
    /\ ~Exists(files, Resolve(ExpandUser(PathOf(Argument("working_directory").v))))

\* C7: when the working directory of execute_command or run_security_tool
\* does not exist, the report is the directory-not-found report and no
\* subprocess was spawned.
C7_MissingDirNoSpawn ==
    (Returned /\ RunnableInMissingDir) =>
        (result.kind = "wd_missing" /\ ~io.spawned)

\* The report has exactly one line for the label
OneLine(report, label) ==
    Cardinality({ i \in 1..Len(report.text) : report.text[i].label = label }) = 1

\* C8: whatever the two HTTP probes meet, the status report has one line for
\* SmartBERT, one for web3-sekit and one for the scanner binary, each telling
\* what was met; a probe that fails is reported as not running.
C8_StatusAlwaysThreeLines ==
    (Returned /\ io.net) =>
        /\ result.kind = "status"
        /\ OneLine(result, "SmartBERT API")
        /\ OneLine(result, "web3-sekit API")
        /\ OneLine(result, "web3-scanner CLI")
        /\ Shows(result, "SmartBERT API",
                 (IF io.smartbert \in { "json_dict", "json_other" }
                  THEN <<"Running at">> ELSE <<"Not running at">>)
                 \o DEFAULT_ENV.SMARTBERT_API)
        /\ Shows(result, "web3-sekit API",
                 (IF io.sekit = "ok" THEN <<"Running at">> ELSE <<"Not running at">>)
                 \o DEFAULT_ENV.WEB3_SEKIT_API)
        /\ Shows(result, "web3-scanner CLI",
                 (IF Web3Scanner \in files THEN <<"Available at">> ELSE <<"Not found at">>)
                 \o PathStr(Web3Scanner))

\* check_web3se_status has answered with neither service reachable, one of
\* the probes having met a body that is not JSON, and the scanner absent
C8_Witness ==
    /\ Returned
    /\ req.name = "check_web3se_status"
    /\ io.smartbert = "not_json"
    /\ io.sekit = "URLError"
    /\ Web3Scanner \notin files
    /\ result.kind = "status"

FailureKinds ==
    TimeoutKinds \cup { "wd_missing", "tool_not_found", "scanner_missing",
                        "exec_error", "tool_error", "scan_error" }

\* The report shows the text somewhere
Mentions(report, text) ==
    \E i \in 1..Len(report.text) : IsSubstring(text, report.text[i].val)

\* C9: a failure report of an operation given a command or tool name shows
\* that name and every argument the request supplied.
C9_FailureReportsShowRequest ==
    (/\ Returned
     /\ req.name \in { "execute_command", "run_security_tool", "web3_scanner_scan" }
     /\ result.kind \in FailureKinds) =>
        \A k \in DOMAIN req.arguments :
            (Argument(k).ty = "str" /\ Argument(k).v # <<>>) =>
                Mentions(result, Argument(k).v)

C11_BaseEnvNeverChanges ==
    [][ /\ DEFAULT_ENV' = DEFAULT_ENV
        /\ proc'.state # "none" => proc'.PATH = PrepareEnv(DEFAULT_ENV).PATH ]_vars

\* run_security_tool has prepared its environment and run the tool to its
\* end; the module-level mapping is one of those built at import
C11_Witness ==
    /\ Returned
    /\ req.name = "run_security_tool"
    /\ result.kind = "tool_result"
    /\ proc.PATH = DEFAULT_ENV.PATH
    /\ DEFAULT_ENV \in { DefaultEnvOf(base) : base \in BasePaths }

StartRequest == req.name = "start_web3se_services"

Background == Truthy(Get(req.arguments, "background", B(<<"False">>)))

\* C12 as stated: start_web3se_services with background false or absent
\* spawns no process and returns the instructional text.
C12_ForegroundReturnsInstructions ==
    (Returned /\ StartRequest /\ ~Background) =>
        (~io.spawned /\ result.kind = "start_instructions")

\* C12 amended: start_web3se_services with no scanner binary spawns nothing
\* and returns the "web3-scanner not found" report in either mode.  With the
\* binary present: background false or absent spawns no process and returns
\* the instructional text; background true spawns the launcher (a failed
\* spawn returns the "Error starting services" report), the sleep starts
\* only when the launcher shell has been waited for, the status check runs
\* only after the sleep, and its report is the operation's result unchanged.
C12_StartNeverHoldsRequest ==
    /\ (Returned /\ StartRequest) =>
          IF ~Exists(files, Web3Scanner)
          THEN result.kind = "scanner_missing" /\ ~io.spawned /\ ~io.net
          ELSE IF ~Background
          THEN result.kind = "start_instructions" /\ proc = NoProc
               /\ ~io.spawned /\ ~io.net
          ELSE IF ~io.spawned
          THEN result.kind = "start_error" /\ ~io.net
          ELSE /\ proc.state = "reaped"
               /\ io.net
               /\ result = StatusReport(DEFAULT_ENV, files, io.smartbert, io.sekit)
    /\ (StartRequest /\ pc = "launcher_wait") => (io.spawned /\ ~io.net)
    /\ (StartRequest /\ pc = "sleep") => (proc.state = "reaped" /\ ~io.net)

\* start_web3se_services in background mode has returned the status report
\* after the launcher shell exited
C12_Witness ==
    /\ Returned
    /\ StartRequest
    /\ Background
    /\ io.spawned
    /\ proc.state = "reaped"
    /\ proc.cmd = LauncherCommand
    /\ result.kind = "status"

\* C15: when execute_command, run_security_tool or web3_scanner_scan
\* returns its result, a subprocess that it spawned has exited and been
\* reaped, on the exception paths too.
C15_SpawnedIsReapedAtReturn ==
    (Returned /\ io.spawned
       /\ req.name \in {"execute_command", "run_security_tool", "web3_scanner_scan"}) =>
        proc.state = "reaped"

ResolvedInstalled ==
    /\ Returned
    /\ req.name = "find_tool_executable"
    /\ InstallDirExists(Argument("tool_name").v)

\* The registry entry of the name resolved
ResolvedConfig == tool_configs[Lower(Argument("tool_name").v)]

\* The module that a "python3 -m module" template names
TemplateModule(command) == Split(command)[3]

ModuleStyle(command) == Len(Split(command)) = 3 /\ Split(command)[2] = <<"-m">>

\* C13: for a registry tool whose template is "python3 -m module" and whose
\* installation directory exists, if the module's path under the
\* installation directory (dots being separators) exists, or holds
\* __init__.py, find_tool_executable returns the template and the
\* installation directory, whatever executable candidates there are.
C13_ModuleLaunchPreferred ==
    (/\ ResolvedInstalled
     /\ ModuleStyle(ResolvedConfig.command)
     /\ ModulePathExists(files,
            PathJoin(ResolvedConfig.dir,
                     Replace(TemplateModule(ResolvedConfig.command), ".", "/")))) =>
        /\ result.text # None
        /\ result.text[1].command = ResolvedConfig.command
        /\ result.text[1].cwd = PathStr(ResolvedConfig.dir)

\* The candidate paths for the name resolved, in the order of the claim
Candidates ==
    << PathJoin(ResolvedConfig.dir, Argument("tool_name").v),
       PathJoin(ResolvedConfig.dir, Lower(Argument("tool_name").v)),
       PathJoin(ResolvedConfig.dir, <<"bin", "/">> \o Argument("tool_name").v),
       PathJoin(ResolvedConfig.dir, <<"bin", "/">> \o Lower(Argument("tool_name").v)) >>

Qualifies(i) == Candidates[i] \in files /\ Candidates[i] \in execs

\* C14: when the installation directory exists and the check for a python3
\* command did not succeed, find_tool_executable returns as command the
\* first of {dir}/{name}, {dir}/{lowercased name}, {dir}/bin/{name},
\* {dir}/bin/{lowercased name} that exists and is executable, with the
\* installation directory as cwd: candidates that are missing or not
\* executable are passed over, and no later candidate is returned while an
\* earlier one qualifies.
C14_FirstExecutableCandidate ==
    (ResolvedInstalled /\ ~ModuleFound(files, ResolvedConfig)) =>
        \A i \in 1..4 :
            (Qualifies(i) /\ \A j \in 1..(i - 1) : ~Qualifies(j)) =>
                /\ result.text # None
                /\ result.text[1].command = PathStr(Candidates[i])
                /\ result.text[1].cwd = PathStr(ResolvedConfig.dir)

\* "Echidna" has resolved to {dir}/echidna: {dir}/Echidna exists but is not
\* executable, and {dir}/bin/Echidna is executable too
C14_Witness ==
    /\ ResolvedInstalled
    /\ Argument("tool_name") = S(<<"Echidna">>)
    /\ Candidates[1] \in files /\ ~Qualifies(1)
    /\ Qualifies(2)
    /\ Qualifies(3)
    /\ result.text[1].command = PathStr(Candidates[2])

====
